---- MODULE Spec2Model ----
(***************************************************************************)
(* Model of the metric code of "Assignment 1/CNN_EXAMPLE.ipynb":           *)
(*   - class AverageMeter (reset / update), a weighted running mean;       *)
(*   - error_rate(output, target, topk), the top-k error percentages.      *)
(*                                                                         *)
(* Numbers.  Python floats and float tensors are modelled as exact         *)
(* rationals <<num, den>> in lowest terms with den > 0: every sum, product *)
(* and quotient of the code is the exact one, the rounding of binary       *)
(* floating point is not modelled.  The exception is the comparison of two  *)
(* runs of update that differ in the order of the calls (SpecOrder,        *)
(* SpecWorkers): there every product, sum and quotient is rounded to a     *)
(* binary float of MantissaBits bits, round-half-to-even, as IEEE 754      *)
(* arithmetic does with 53 bits.                                           *)
(***************************************************************************)
EXTENDS Integers, Sequences, FiniteSets

(*************************** bounds of the model ***************************)
MaxVal     == 4    \* observed values have numerators 0..MaxVal
MaxDen     == 2    \* and denominators 1..MaxDen
MaxNegWeight == 1  \* weights passed to update: -MaxNegWeight..MaxWeight
MaxWeight  == 3
MaxUpdates == 3    \* update calls between two resets
MaxN       == 2    \* examples in a batch: 0..MaxN
MaxC       == 3    \* classes of a score tensor: 1..MaxC
MaxScore   == 1    \* a class score is one of 0..MaxScore
MaxTopk    == 2    \* length of the tuple topk: 1..MaxTopk
MaxC5      == 5    \* classes of the batches scored with topk=(1, 5)
MantissaBits == 3  \* significand bits of the rounded float arithmetic
MaxOrder   == 3    \* update calls of a run whose order is varied
MaxOrderVal == 3   \* their values: the floats nearest to 1..MaxOrderVal
MaxWorkers == 2    \* workers that own one meter each
MaxBatches == 2    \* batches of a loader: 0..MaxBatches
MaxEpochs  == 2    \* epochs of the driver loop
RunClasses == 6    \* classes the network scores
MaxRunLabel == 1   \* labels of the validation set: 0..MaxRunLabel

(****************************** rationals **********************************)
Abs(x) == IF x < 0 THEN -x ELSE x

RECURSIVE Gcd(_, _)
Gcd(a, b) == IF b = 0 THEN a ELSE Gcd(b, a % b)

\* the rational n/d (d # 0) in lowest terms with a positive denominator
Norm(n, d) ==
    LET g == Gcd(Abs(n), Abs(d))
        s == IF d < 0 THEN -1 ELSE 1
    IN  <<(s * n) \div g, (s * d) \div g>>

Zero == <<0, 1>>
FromInt(i) == <<i, 1>>

\* val * n and wrong_k * (100.0 / batch_size)
RatMul(a, b) == Norm(a[1] * b[1], a[2] * b[2])

\* self.sum += ...
RatAdd(a, b) == Norm(a[1] * b[2] + b[1] * a[2], a[2] * b[2])

\* Python true division a / b, defined for b # 0
RatDiv(a, b) == Norm(a[1] * b[2], a[2] * b[1])

RatLeq(a, b) == a[1] * b[2] <= b[1] * a[2]

(*********************** binary floating point ****************************)
RECURSIVE Pow2(_)
Pow2(e) == IF e = 0 THEN 1 ELSE 2 * Pow2(e - 1)

\* n/d > 0 rounded to MantissaBits significant bits, ties to the even
\* significand; e is the exponent of the scaling done so far
RECURSIVE FlPos(_, _, _)
FlPos(n, d, e) ==
    IF n < Pow2(MantissaBits - 1) * d THEN FlPos(2 * n, d, e - 1)
    ELSE IF n >= Pow2(MantissaBits) * d THEN FlPos(n, 2 * d, e + 1)
    ELSE LET f == n \div d
             r == n - f * d
             m == IF 2 * r < d THEN f
                  ELSE IF 2 * r > d THEN f + 1
                  ELSE IF f % 2 = 0 THEN f ELSE f + 1
         IN  IF e >= 0 THEN <<m * Pow2(e), 1>> ELSE Norm(m, Pow2(0 - e))

\* the float nearest to the rational x
Fl(x) ==
    IF x[1] = 0 THEN Zero
    ELSE IF x[1] > 0 THEN FlPos(x[1], x[2], 0)
    ELSE LET y == FlPos(0 - x[1], x[2], 0) IN <<0 - y[1], y[2]>>

(***************************** AverageMeter ********************************)
\* the values a caller observes: losses and percentages
Values ==
    {r \in (0..MaxVal) \X (1..MaxDen) : Gcd(r[1], r[2]) = 1}

Weights == (0 - MaxNegWeight)..MaxWeight

\* an object before __init__ has run: no attribute holds a number yet
\* (<<>> stands for a missing attribute)
NoAttr == [val |-> <<>>, avg |-> <<>>, sum |-> <<>>, count |-> <<>>]

\* reset without its line "self.val = 0"
reset_keeps_val(self) ==
    [[[self EXCEPT !.avg = Zero]
            EXCEPT !.sum = Zero]
            EXCEPT !.count = 0]

\* def reset(self): four assignments, whatever the attributes held
reset(self) ==
    [[[[self EXCEPT !.val = Zero]
             EXCEPT !.avg = Zero]
             EXCEPT !.sum = Zero]
             EXCEPT !.count = 0]

\* def __init__(self): self.reset()
AverageMeter == reset(NoAttr)

\* update with "self.avg = self.sum / n": the batch weight as divisor
update_avg_by_n(self, val, n) ==
    LET s1 == [self EXCEPT !.val = val]
        s2 == [s1 EXCEPT !.sum = RatAdd(s1.sum, RatMul(val, FromInt(n)))]
        s3 == [s2 EXCEPT !.count = s2.count + n]
    IN  IF n = 0
        THEN [obj |-> s3, raised |-> "ZeroDivisionError"]
        ELSE [obj |-> [s3 EXCEPT !.avg = RatDiv(s3.sum, FromInt(n))],
              raised |-> "none"]

\* update with "self.sum += val" in place of "self.sum += val * n"
update_unweighted(self, val, n) ==
    LET s1 == [self EXCEPT !.val = val]
        s2 == [s1 EXCEPT !.sum = RatAdd(s1.sum, val)]
        s3 == [s2 EXCEPT !.count = s2.count + n]
    IN  IF s3.count = 0
        THEN [obj |-> s3, raised |-> "ZeroDivisionError"]
        ELSE [obj |-> [s3 EXCEPT !.avg = RatDiv(s3.sum, FromInt(s3.count))],
              raised |-> "none"]

\* def update(self, val, n=1): the object after the call, and how the call
\* ended.  The division raises ZeroDivisionError when the new count is 0;
\* the three assignments before it have then already taken effect.
update(self, val, n) ==
    LET s1 == [self EXCEPT !.val = val]
        s2 == [s1 EXCEPT !.sum = RatAdd(s1.sum, RatMul(val, FromInt(n)))]
        s3 == [s2 EXCEPT !.count = s2.count + n]
    IN  IF s3.count = 0
        THEN [obj |-> s3, raised |-> "ZeroDivisionError"]
        ELSE [obj |-> [s3 EXCEPT !.avg = RatDiv(s3.sum, FromInt(s3.count))],
              raised |-> "none"]

\* rounded update with "self.sum = val * n": assignment in place of +=
update_fl_assign(self, val, n) ==
    LET s1 == [self EXCEPT !.val = val]
        s2 == [s1 EXCEPT !.sum = Fl(RatMul(val, FromInt(n)))]
        s3 == [s2 EXCEPT !.count = s2.count + n]
    IN  IF s3.count = 0
        THEN [obj |-> s3, raised |-> "ZeroDivisionError"]
        ELSE [obj |-> [s3 EXCEPT !.avg = Fl(RatDiv(s3.sum, FromInt(s3.count)))],
              raised |-> "none"]

\* def update(self, val, n=1) in float arithmetic: the product, the sum and
\* the quotient are each rounded; count is an int
update_fl(self, val, n) ==
    LET s1 == [self EXCEPT !.val = val]
        s2 == [s1 EXCEPT !.sum = Fl(RatAdd(s1.sum, Fl(RatMul(val, FromInt(n)))))]
        s3 == [s2 EXCEPT !.count = s2.count + n]
    IN  IF s3.count = 0
        THEN [obj |-> s3, raised |-> "ZeroDivisionError"]
        ELSE [obj |-> [s3 EXCEPT !.avg = Fl(RatDiv(s3.sum, FromInt(s3.count)))],
              raised |-> "none"]

\* the meter after the update calls of h, in order, in float arithmetic
RECURSIVE Feed(_, _)
Feed(self, h) ==
    IF h = <<>> THEN self
    ELSE Feed(update_fl(self, h[1][1], h[1][2]).obj, Tail(h))

(******************************* error_rate ********************************)
Scores == 0..MaxScore

\* max(topk) of a non-empty tuple
RECURSIVE max(_)
max(t) ==
    IF Len(t) = 1 THEN t[1]
    ELSE LET m == max(Tail(t)) IN IF t[1] >= m THEN t[1] ELSE m

\* the ways to take k classes out of rest, each time one that no class still
\* in rest scores below
RECURSIVE LowestFrom(_, _, _)
LowestFrom(row, rest, k) ==
    IF k = 0 THEN {<<>>}
    ELSE UNION {{<<c>> \o s : s \in LowestFrom(row, rest \ {c}, k - 1)} :
                 c \in {c \in rest : \A dd \in rest : row[dd] >= row[c]}}

\* topk with largest=False: the k lowest scores, from the lowest upwards
TopIndices_smallest(row, C, k) == LowestFrom(row, 0..(C - 1), k)

\* the ways to take k classes out of rest, each time one that no class still
\* in rest scores above
RECURSIVE HighestFrom(_, _, _)
HighestFrom(row, rest, k) ==
    IF k = 0 THEN {<<>>}
    ELSE UNION {{<<c>> \o s : s \in HighestFrom(row, rest \ {c}, k - 1)} :
                 c \in {c \in rest : \A dd \in rest : row[dd] <= row[c]}}

\* The index rows that topk(k, largest=True, sorted=True) may return for one
\* row of C scores: k distinct classes, from the highest score downwards,
\* none left out that scores higher than the last one taken.  Which of
\* several equal scores comes first is not fixed by the library.
TopIndices(row, C, k) == HighestFrom(row, 0..(C - 1), k)

\* topk that takes min(k, C) entries where the library rejects k > C
topk_clamped(input, size, k) ==
    LET kk == IF k <= size[2] THEN k ELSE size[2]
    IN  [raised  |-> "none",
         indices |-> {p \in [1..size[1] -> UNION {TopIndices(input[i], size[2], kk) : i \in 1..size[1]}] :
                         \A i \in 1..size[1] : p[i] \in TopIndices(input[i], size[2], kk)}]

\* output.topk(maxk, 1, True, True) on a tensor of size <<N, C>>: the library
\* raises RuntimeError ("selected index k out of range") when k > C, and
\* otherwise returns one index row per example.
topk_call(input, size, k) ==
    IF k > size[2]
    THEN [raised |-> "RuntimeError", indices |-> {}]
    ELSE [raised  |-> "none",
          indices |-> {p \in [1..size[1] -> UNION {TopIndices(input[i], size[2], k) : i \in 1..size[1]}] :
                          \A i \in 1..size[1] : p[i] \in TopIndices(input[i], size[2], k)}]

\* pred.t(): rows become columns
pred_t(pred, N, maxk) == [j \in 1..maxk |-> [i \in 1..N |-> pred[i][j]]]

\* pred.eq(target.view(1, -1).expand_as(pred)): element-wise comparison of
\* every row of pred with the row of labels
eq_expand(pred, target) ==
    [j \in DOMAIN pred |-> [i \in DOMAIN target |-> pred[j][i] = target[i]]]

\* correct[k-1:k]: only the k-th row where the code takes the first k
slice_sum_kth_row(correct, k) ==
    Cardinality({e \in (DOMAIN correct) \X (1..(IF correct = <<>> THEN 0 ELSE Len(correct[1]))) :
                    e[1] = k /\ correct[e[1]][e[2]]})

\* correct[:k-1]: one row short
slice_sum_short(correct, k) ==
    Cardinality({e \in (DOMAIN correct) \X (1..(IF correct = <<>> THEN 0 ELSE Len(correct[1]))) :
                    e[1] <= k - 1 /\ correct[e[1]][e[2]]})

\* correct[:k].reshape(-1).float().sum(0, keepdim=True): the number of True
\* entries in the first k rows (all rows when there are fewer than k)
slice_sum(correct, k) ==
    Cardinality({e \in (DOMAIN correct) \X (1..(IF correct = <<>> THEN 0 ELSE Len(correct[1]))) :
                    e[1] <= k /\ correct[e[1]][e[2]]})

\* the loop "for k in topk" with res.insert(0, ...) in place of res.append
rates_prepended(correct, topk, batch_size) ==
    [i \in 1..Len(topk) |->
        LET k == topk[Len(topk) + 1 - i]
            correct_k == slice_sum(correct, k)
            wrong_k == batch_size - correct_k
        IN  RatMul(FromInt(wrong_k), RatDiv(FromInt(100), FromInt(batch_size)))]

\* the loop with "wrong_k = batch_size - correct_k" left out: the percentage
\* of correct examples
rates_accuracy(correct, topk, batch_size) ==
    [i \in 1..Len(topk) |->
        LET k == topk[i]
            correct_k == slice_sum(correct, k)
        IN  RatMul(FromInt(correct_k), RatDiv(FromInt(100), FromInt(batch_size)))]

\* the loop "for k in topk" for batch_size # 0: one appended value per k,
\* wrong_k.mul_(100.0 / batch_size)
rates(correct, topk, batch_size) ==
    [i \in 1..Len(topk) |->
        LET k == topk[i]
            correct_k == slice_sum(correct, k)
            wrong_k == batch_size - correct_k
        IN  RatMul(FromInt(wrong_k), RatDiv(FromInt(100), FromInt(batch_size)))]

\* the in-place mul_ writing into the storage of target
mul_storage_target == "target"

\* The storage that the in-place wrong_k.mul_(...) writes: wrong_k is the
\* tensor newly made by "batch_size - correct_k"; pred.t(), target.view,
\* expand_as and correct[:k] are views, read only.
mul_storage == "wrong_k"

\* the label tensor after the loop: written only if mul_ works on its storage
target_after_mul_(target, batch_size) ==
    IF mul_storage = "target"
    THEN [i \in DOMAIN target |-> (target[i] * 100) \div batch_size]
    ELSE target

\* the score tensor after the loop, likewise
output_after_mul_(output, batch_size) ==
    IF mul_storage = "output"
    THEN [i \in DOMAIN output |->
            [c \in DOMAIN output[i] |-> (output[i][c] * 100) \div batch_size]]
    ELSE output

\* error_rate from line 441 on, p being the indices topk returned: the
\* local pred, the returned list, the exception raised and the argument
\* tensors as the call leaves them
error_rate_from(p, output, target, topk) ==
    LET maxk == max(topk)
        batch_size == Len(target)
        pred == pred_t(p, batch_size, maxk)
    IN  IF batch_size = 0
        THEN [pred |-> pred, res |-> <<>>, failure |-> "ZeroDivisionError",
              output |-> output, target |-> target]
        ELSE [pred |-> pred,
              res |-> rates(eq_expand(pred, target), topk, batch_size),
              failure |-> "none",
              output |-> output_after_mul_(output, batch_size),
              target |-> target_after_mul_(target, batch_size)]

\* def error_rate(output, target, topk=(1,)): the ways one call can end
error_rate(output, size, target, topk) ==
    LET tk == topk_call(output, size, max(topk))
    IN  IF tk.raised # "none"
        THEN {[pred |-> <<>>, res |-> <<>>, failure |-> tk.raised,
               output |-> output, target |-> target]}
        ELSE {error_rate_from(p, output, target, topk) : p \in tk.indices}

VARIABLES
    output,    \* the score tensor: one row of class scores per example
    size,      \* output.size() = <<N, C>>
    target,    \* the label tensor: one label per example
    topk,      \* the tuple of requested k
    pred,      \* the local pred after the transposition, <<>> before
    res,       \* the list error_rate returns, <<>> when it raises
    failure,   \* the exception error_rate ended with, or "none"
    pc         \* "idle": no call; "call": about to run; "done": returned/raised

evars == <<output, size, target, topk, pred, res, failure, pc>>

VARIABLES
    meter,     \* the AverageMeter under test
    fresh,     \* a second AverageMeter, constructed anew at each reset of
               \* meter and given the same updates since
    hist,      \* the <<val, n>> of the update calls since the last reset
    prev,      \* meter as it was before the last call
    dirtyReset, \* the last reset found accumulated values in meter
    lastOp,    \* the last call: [op, val, n]
    raised     \* the exception the last call ended with, or "none"

mvars == <<meter, fresh, hist, prev, dirtyReset, lastOp, raised>>

VARIABLES
    ups,       \* the update calls <<val, n>> of the run, in a first order
    perm,      \* a permutation of their positions: the second order
    mA,        \* the meter given ups in the first order
    mB,        \* the meter given ups in the second order
    opc        \* "idle", "start": nothing applied yet, "done"

ovars == <<ups, perm, mA, mB, opc>>

VARIABLES
    queue,     \* queue[w]: the update calls worker w has still to make
    wm,        \* wm[w]: the AverageMeter worker w owns
    single,    \* one AverageMeter given every call as the workers make them
    whist,     \* whist[w]: the calls worker w has made
    shist      \* the calls single was given, in order

wvars == <<queue, wm, single, whist, shist>>

VARIABLES
    res2,      \* the list a second call with the same arguments returns
    failure2   \* the exception the second call ended with, or "none"

cvars == <<res2, failure2>>

VARIABLES
    rpc,          \* where the run is: "idle", "epoch" (head of the epoch
                  \* loop), "t_for"/"v_for" (head of the batch loop of train
                  \* or validate), "t_body"/"v_body" (inside its body),
                  \* "validate" (train has returned), "finished", "raised"
    stmt,         \* the statement of the loop body to run next, 0 outside
    epoch,        \* the loop variable of the driver
    bi,           \* the number of the batch last taken from the loader
    mode,         \* the mode of the model: "new", "train" or "eval"
    exc,          \* the exception that was raised, or "none"
    events,       \* what the current train or validate call has done so
                  \* far: pairs <<what, batch number>>
    losses,       \* the local meters of the current call
    top1,
    top5,
    loss,         \* loss.item() of the current batch
    out,          \* the output of the model for the current batch
    errv,         \* <<err1, err5>> of the current batch
    best_err1,    \* the globals of the notebook
    best_err5,
    errs,         \* the <<err1, err5>> validate returned, one per epoch
    wrong,        \* <<w1, w5>>: the validation examples of this call met
                  \* so far whose label was not the top class, and not
                  \* among the top five
    train_loader, \* the batches of the training set
    val_loader    \* the batches of the validation set: one label vector each

rvars == <<rpc, stmt, epoch, bi, mode, exc, events, losses, top1, top5,
           loss, out, errv, best_err1, best_err5, errs, wrong,
           train_loader, val_loader>>

\* everything but the AverageMeter under test and the error_rate call
xvars == <<ovars, wvars, cvars, rvars>>

vars == <<evars, mvars, xvars>>

\* no run with varied order is in progress
OrderIdle ==
    /\ ups = <<>> /\ perm = <<>> /\ mA = AverageMeter /\ mB = AverageMeter
    /\ opc = "idle"

\* no workers are running
WorkersIdle ==
    /\ queue = <<>> /\ wm = <<>> /\ single = AverageMeter
    /\ whist = <<>> /\ shist = <<>>

\* no second call of error_rate was made
NoSecondCall == res2 = <<>> /\ failure2 = "none"

\* no training run was started
RunIdle ==
    /\ rpc = "idle" /\ stmt = 0 /\ epoch = 0 /\ bi = 0 /\ mode = "new"
    /\ exc = "none" /\ events = <<>>
    /\ losses = NoAttr /\ top1 = NoAttr /\ top5 = NoAttr
    /\ loss = Zero /\ out = <<>> /\ errv = <<>>
    /\ best_err1 = FromInt(100) /\ best_err5 = FromInt(100)
    /\ errs = <<>> /\ wrong = <<0, 0>>
    /\ train_loader = <<>> /\ val_loader = <<>>

OthersIdle == OrderIdle /\ WorkersIdle /\ NoSecondCall /\ RunIdle

\* the AverageMeter under test, newly constructed
MeterIdle ==
    /\ meter = AverageMeter
    /\ fresh = AverageMeter
    /\ hist = <<>>
    /\ prev = AverageMeter
    /\ dirtyReset = FALSE
    /\ lastOp = [op |-> "init", val |-> Zero, n |-> 0]
    /\ raised = "none"

\* no error_rate call is in progress
NoCall ==
    /\ output = <<>> /\ size = <<0, 1>> /\ target = <<>> /\ topk = <<1>>
    /\ pred = <<>> /\ res = <<>> /\ failure = "none" /\ pc = "idle"

InitMeter ==
    /\ meter = AverageMeter
    /\ fresh = AverageMeter
    /\ hist = <<>>
    /\ prev = AverageMeter
    /\ dirtyReset = FALSE
    /\ lastOp = [op |-> "init", val |-> Zero, n |-> 0]
    /\ raised = "none"
    /\ NoCall
    /\ OthersIdle

Reset ==
    /\ prev' = meter
    /\ dirtyReset' = (meter.count # 0 /\ meter.val # Zero /\ meter.avg # Zero)
    /\ meter' = reset(meter)
    /\ fresh' = AverageMeter
    /\ hist' = <<>>
    /\ lastOp' = [op |-> "reset", val |-> Zero, n |-> 0]
    /\ raised' = "none"
    /\ UNCHANGED evars
    /\ UNCHANGED xvars

Update ==
    /\ Len(hist) < MaxUpdates
    /\ \E v \in Values, n \in Weights :
         LET r == update(meter, v, n)
             f == update(fresh, v, n)
         IN  /\ prev' = meter
             /\ dirtyReset' = dirtyReset
             /\ meter' = r.obj
             /\ fresh' = f.obj
             /\ hist' = Append(hist, <<v, n>>)
             /\ lastOp' = [op |-> "update", val |-> v, n |-> n]
             /\ raised' = r.raised
    /\ UNCHANGED evars
    /\ UNCHANGED xvars

NextMeter == Reset \/ Update

SpecMeter == InitMeter /\ [][NextMeter]_vars

(*************************** calls of error_rate ***************************)
\* labels of a batch over C classes; C itself is a label outside [0, C)
Labels(C) == 0..C

RECURSIVE TuplesUpTo(_, _)
TuplesUpTo(S, n) ==
    IF n = 0 THEN {}
    ELSE [1..n -> S] \cup TuplesUpTo(S, n - 1)

\* topk=(1, 5), as validate calls error_rate
ValidateTopk == <<1, 5>>

InitErr ==
    /\ size \in (0..MaxN) \X (1..MaxC)
    /\ output \in [1..size[1] -> [0..(size[2] - 1) -> Scores]]
    /\ target \in [1..size[1] -> Labels(size[2])]
    /\ topk \in TuplesUpTo(1..(MaxC + 1), MaxTopk)
    /\ pred = <<>>
    /\ res = <<>>
    /\ failure = "none"
    /\ pc = "call"
    /\ meter = AverageMeter
    /\ fresh = AverageMeter
    /\ hist = <<>>
    /\ prev = AverageMeter
    /\ dirtyReset = FALSE
    /\ lastOp = [op |-> "init", val |-> Zero, n |-> 0]
    /\ raised = "none"
    /\ OthersIdle

\* one whole call error_rate(output, target, topk)
ErrorRate ==
    /\ pc = "call"
    /\ pc' = "done"
    /\ \E o \in error_rate(output, size, target, topk) :
         /\ pred' = o.pred
         /\ res' = o.res
         /\ failure' = o.failure
         /\ output' = o.output
         /\ target' = o.target
    /\ UNCHANGED <<size, topk>>
    /\ UNCHANGED mvars
    /\ UNCHANGED xvars

NextErr == ErrorRate

\* A second call with the same argument objects.  topk is a function of its
\* input tensor: where the first call's indices are among the possible ones,
\* the second call gets them again.
ErrorRateAgain ==
    /\ pc = "done"
    /\ pc' = "done2"
    /\ LET tk == topk_call(output, size, max(topk))
           p1 == [i \in 1..Len(target) |->
                    [j \in DOMAIN pred |-> pred[j][i]]]
       IN  \E o \in (IF tk.raised = "none" /\ p1 \in tk.indices
                     THEN {error_rate_from(p1, output, target, topk)}
                     ELSE error_rate(output, size, target, topk)) :
             /\ res2' = o.res
             /\ failure2' = o.failure
             /\ output' = o.output
             /\ target' = o.target
    /\ UNCHANGED <<size, topk, pred, res, failure>>
    /\ UNCHANGED <<mvars, ovars, wvars, rvars>>

NextTwice == ErrorRate \/ ErrorRateAgain

\* the calls that are repeated: topk=(k,) like the default topk=(1,), and
\* topk=(1, k) like validate's topk=(1, 5)
InitTwice ==
    /\ size \in (0..MaxN) \X (1..MaxC)
    /\ output \in [1..size[1] -> [0..(size[2] - 1) -> Scores]]
    /\ target \in [1..size[1] -> Labels(size[2])]
    /\ topk \in {<<k>> : k \in 1..(MaxC + 1)}
                 \cup {<<ValidateTopk[1], k>> : k \in 2..(MaxC + 1)}
    /\ pred = <<>>
    /\ res = <<>>
    /\ failure = "none"
    /\ pc = "call"
    /\ MeterIdle
    /\ OthersIdle

SpecTwice == InitTwice /\ [][NextTwice]_vars

\* one-example batches over at least five classes, scored as validate does
InitTop5 ==
    /\ size \in {<<1, c>> : c \in ValidateTopk[2]..MaxC5}
    /\ output \in [1..size[1] -> [0..(size[2] - 1) -> Scores]]
    /\ target \in [1..size[1] -> Labels(size[2])]
    /\ topk = ValidateTopk
    /\ pred = <<>>
    /\ res = <<>>
    /\ failure = "none"
    /\ pc = "call"
    /\ meter = AverageMeter
    /\ fresh = AverageMeter
    /\ hist = <<>>
    /\ prev = AverageMeter
    /\ dirtyReset = FALSE
    /\ lastOp = [op |-> "init", val |-> Zero, n |-> 0]
    /\ raised = "none"
    /\ OthersIdle

\* the calls of SpecErr and the five-class calls
SpecTop5 == (InitErr \/ InitTop5) /\ [][NextErr]_vars

SpecErr == InitErr /\ [][NextErr]_vars

(********************* update calls in two orders *************************)
\* the values observed in these runs, as floats
FlValues == {Fl(FromInt(v)) : v \in 1..MaxOrderVal}

\* the permutations of 1..n
Perms(n) == {f \in [1..n -> 1..n] : \A a, b \in 1..n : a # b => f[a] # f[b]}

\* the calls of h in the order f
Permuted(h, f) == [a \in 1..Len(h) |-> h[f[a]]]

InitOrder ==
    /\ ups \in TuplesUpTo(FlValues \X (1..MaxWeight), MaxOrder)
    /\ perm \in Perms(Len(ups))
    /\ mA = AverageMeter
    /\ mB = AverageMeter
    /\ opc = "start"
    /\ MeterIdle
    /\ NoCall
    /\ WorkersIdle
    /\ NoSecondCall
    /\ RunIdle

\* two new meters are given the same calls, one in each order
ApplyOrders ==
    /\ opc = "start"
    /\ opc' = "done"
    /\ mA' = Feed(mA, ups)
    /\ mB' = Feed(mB, Permuted(ups, perm))
    /\ UNCHANGED <<ups, perm>>
    /\ UNCHANGED <<evars, mvars, wvars, cvars, rvars>>

NextOrder == ApplyOrders

SpecOrder == InitOrder /\ [][NextOrder]_vars

(******************** one AverageMeter per worker *************************)
Workers == 1..MaxWorkers

\* the calls of h from position a on that own gives to worker w, in order
RECURSIVE OwnedBy(_, _, _, _)
OwnedBy(h, own, w, a) ==
    IF a > Len(h) THEN <<>>
    ELSE IF own[a] = w THEN <<h[a]>> \o OwnedBy(h, own, w, a + 1)
    ELSE OwnedBy(h, own, w, a + 1)

\* the update calls are split among the workers, each with its own meter
InitWorkers ==
    /\ \E h \in TuplesUpTo(FlValues \X (1..MaxWeight), MaxOrder) :
         \E own \in [1..Len(h) -> Workers] :
            queue = [w \in Workers |-> OwnedBy(h, own, w, 1)]
    /\ wm = [w \in Workers |-> AverageMeter]
    /\ single = AverageMeter
    /\ whist = [w \in Workers |-> <<>>]
    /\ shist = <<>>
    /\ MeterIdle
    /\ NoCall
    /\ OrderIdle
    /\ NoSecondCall
    /\ RunIdle

\* worker w makes its next update call on its own meter; the same call goes
\* to the single meter
WorkerUpdate(w) ==
    /\ queue[w] # <<>>
    /\ LET c == Head(queue[w])
       IN  /\ wm' = [wm EXCEPT ![w] = update_fl(wm[w], c[1], c[2]).obj]
           /\ single' = update_fl(single, c[1], c[2]).obj
           /\ whist' = [whist EXCEPT ![w] = Append(whist[w], c)]
           /\ shist' = Append(shist, c)
    /\ queue' = [queue EXCEPT ![w] = Tail(queue[w])]
    /\ UNCHANGED <<evars, mvars, ovars, cvars, rvars>>

NextWorkers == \E w \in Workers : WorkerUpdate(w)

SpecWorkers == InitWorkers /\ [][NextWorkers]_vars

(************************ train, validate, the driver ***********************)
\* the loop body of train with optimizer.step() before loss.backward()
TrainBody_step_first ==
    <<"zero_grad", "forward", "loss", "step", "backward", "update">>

\* the statements of the loop body of train, in program order
TrainBody == <<"zero_grad", "forward", "loss", "backward", "step", "update">>

\* the statements of the loop body of validate, in program order
ValBody == <<"forward", "loss", "error_rate", "update">>

\* update called without its second argument: n=1
default_n(batch) == 1

\* images.size(0): the number of examples of the batch
images_size0(batch) == Len(batch)

\* a loop body wrapped in "try: ... except: continue"
on_exception_continue(where) == IF where = "train" THEN "t_for" ELSE "v_for"

\* Where control goes when a statement of train or validate raises: neither
\* function nor the driver loop has a try statement, so the exception leaves
\* the call and the loop and ends the run.
on_exception(where) == "raised"

\* "is_best = err1 < best_err1"
is_best_strict(err1, best) == RatLeq(err1, best) /\ err1 # best

\* is_best = err1 <= best_err1
is_best(err1, best) == RatLeq(err1, best)

\* min(err1, best_err1)
min(a, b) == IF RatLeq(a, b) THEN a ELSE b

\* the batches a training loader may yield: only their size matters here
TrainBatches == {[i \in 1..n |-> 0] : n \in 1..MaxN}

\* the label vectors a validation loader may yield
ValBatches == TuplesUpTo(0..MaxRunLabel, MaxN)

\* loss.item(): some positive number
RunLosses == {<<1, d>> : d \in 1..MaxDen}

\* The score rows the network may give: the classes in cyclic order, so that
\* no two classes tie and a label may come first, fifth or last.
NetRows ==
    {[c \in 0..(RunClasses - 1) |-> (c + r) % RunClasses] :
        r \in {0, RunClasses - 5, RunClasses - 1}}

\* model(images): one row of scores per example of the batch
NetOutputs(batch) == [1..Len(batch) -> NetRows]

\* the examples of a batch with k or more classes scoring above their label
WrongCount(scores, batch, k) ==
    Cardinality({i \in 1..Len(batch) :
        Cardinality({c \in 0..(RunClasses - 1) :
                        scores[i][c] > scores[i][batch[i]]}) >= k})

RunFrame == UNCHANGED <<evars, mvars, ovars, wvars, cvars>>

\* a statement of a loop body has run: on to the next one, or back to the
\* head of the loop after the last
Completed(body, head, what) ==
    /\ events' = Append(events, <<what, bi>>)
    /\ IF stmt < Len(body)
       THEN rpc' = rpc /\ stmt' = stmt + 1
       ELSE rpc' = head /\ stmt' = 0
    /\ exc' = exc

\* a statement of train or validate raises
Raise(where, error) ==
    /\ exc' = error
    /\ rpc' = on_exception(where)
    /\ events' = Append(events, <<error, bi>>)
    /\ UNCHANGED <<stmt, epoch, bi, mode, losses, top1, top5, loss, out,
                   errv, best_err1, best_err5, errs, wrong,
                   train_loader, val_loader>>
    /\ RunFrame

\* best_err1 = 100, best_err5 = 100; the loaders hold their batches, at most
\* one of the two more than one batch
InitRun ==
    /\ rpc = "epoch" /\ stmt = 0 /\ epoch = 0 /\ bi = 0 /\ mode = "new"
    /\ exc = "none" /\ events = <<>>
    /\ losses = NoAttr /\ top1 = NoAttr /\ top5 = NoAttr
    /\ loss = Zero /\ out = <<>> /\ errv = <<>>
    /\ best_err1 = FromInt(100) /\ best_err5 = FromInt(100)
    /\ errs = <<>> /\ wrong = <<0, 0>>
    /\ train_loader \in {<<>>} \cup TuplesUpTo(TrainBatches, MaxBatches)
    /\ val_loader \in {<<>>} \cup TuplesUpTo(ValBatches, MaxBatches)
    /\ Len(train_loader) <= 1 \/ Len(val_loader) <= 1
    /\ MeterIdle /\ NoCall /\ OrderIdle /\ WorkersIdle /\ NoSecondCall

\* for epoch in range(epochs): the driver calls train, which makes its
\* meter and puts the model in training mode
EpochBegin ==
    /\ rpc = "epoch" /\ epoch < MaxEpochs
    /\ losses' = AverageMeter
    /\ mode' = "train"
    /\ events' = <<<<"train", 0>>>>
    /\ bi' = 0
    /\ rpc' = "t_for"
    /\ UNCHANGED <<stmt, epoch, exc, top1, top5, loss, out, errv,
                   best_err1, best_err5, errs, wrong,
                   train_loader, val_loader>>
    /\ RunFrame

\* the epoch loop is exhausted
Finish ==
    /\ rpc = "epoch" /\ epoch = MaxEpochs
    /\ rpc' = "finished"
    /\ UNCHANGED <<stmt, epoch, bi, mode, exc, events, losses, top1, top5,
                   loss, out, errv, best_err1, best_err5, errs, wrong,
                   train_loader, val_loader>>
    /\ RunFrame

\* for idx, (images, labels) in enumerate(train_loader): the next batch
TrainFor ==
    /\ rpc = "t_for" /\ bi < Len(train_loader)
    /\ bi' = bi + 1
    /\ events' = Append(events, <<"batch", bi + 1>>)
    /\ rpc' = "t_body" /\ stmt' = 1
    /\ UNCHANGED <<epoch, mode, exc, losses, top1, top5, loss, out, errv,
                   best_err1, best_err5, errs, wrong,
                   train_loader, val_loader>>
    /\ RunFrame

\* the loader is exhausted: return losses.avg; the locals of the call are
\* gone
TrainReturn ==
    /\ rpc = "t_for" /\ bi = Len(train_loader)
    /\ rpc' = "validate"
    /\ losses' = NoAttr /\ loss' = Zero
    /\ bi' = 0 /\ events' = <<>>
    /\ UNCHANGED <<stmt, epoch, mode, exc, top1, top5,
                   out, errv, best_err1, best_err5, errs, wrong,
                   train_loader, val_loader>>
    /\ RunFrame

\* optimizer.zero_grad()
TrainZeroGrad ==
    /\ rpc = "t_body" /\ TrainBody[stmt] = "zero_grad"
    /\ \/ /\ Completed(TrainBody, "t_for", "zero_grad")
          /\ UNCHANGED <<epoch, bi, mode, losses, top1, top5, loss, out,
                         errv, best_err1, best_err5, errs, wrong,
                         train_loader, val_loader>>
          /\ RunFrame
       \/ Raise("train", "OptimizerError")

\* outputs = model(images)
TrainForward ==
    /\ rpc = "t_body" /\ TrainBody[stmt] = "forward"
    /\ \/ /\ Completed(TrainBody, "t_for", "forward")
          /\ UNCHANGED <<epoch, bi, mode, losses, top1, top5, loss, out,
                         errv, best_err1, best_err5, errs, wrong,
                         train_loader, val_loader>>
          /\ RunFrame
       \/ Raise("train", "ModelError")

\* loss = criterion(outputs, labels)
TrainLoss ==
    /\ rpc = "t_body" /\ TrainBody[stmt] = "loss"
    /\ \/ /\ loss' \in RunLosses
          /\ Completed(TrainBody, "t_for", "loss")
          /\ UNCHANGED <<epoch, bi, mode, losses, top1, top5, out,
                         errv, best_err1, best_err5, errs, wrong,
                         train_loader, val_loader>>
          /\ RunFrame
       \/ Raise("train", "CriterionError")

\* loss.backward()
TrainBackward ==
    /\ rpc = "t_body" /\ TrainBody[stmt] = "backward"
    /\ \/ /\ Completed(TrainBody, "t_for", "backward")
          /\ UNCHANGED <<epoch, bi, mode, losses, top1, top5, loss, out,
                         errv, best_err1, best_err5, errs, wrong,
                         train_loader, val_loader>>
          /\ RunFrame
       \/ Raise("train", "BackwardError")

\* optimizer.step()
TrainStep ==
    /\ rpc = "t_body" /\ TrainBody[stmt] = "step"
    /\ \/ /\ Completed(TrainBody, "t_for", "step")
          /\ UNCHANGED <<epoch, bi, mode, losses, top1, top5, loss, out,
                         errv, best_err1, best_err5, errs, wrong,
                         train_loader, val_loader>>
          /\ RunFrame
       \/ Raise("train", "OptimizerError")

\* losses.update(loss.item(), images.size(0))
TrainUpdate ==
    /\ rpc = "t_body" /\ TrainBody[stmt] = "update"
    /\ losses' = update(losses, loss, images_size0(train_loader[bi])).obj
    /\ Completed(TrainBody, "t_for", "update")
    /\ UNCHANGED <<epoch, bi, mode, top1, top5, loss, out,
                   errv, best_err1, best_err5, errs, wrong,
                   train_loader, val_loader>>
    /\ RunFrame

\* the driver calls validate, which makes its three meters and puts the
\* model in evaluation mode
ValidateEnter ==
    /\ rpc = "validate"
    /\ losses' = AverageMeter /\ top1' = AverageMeter /\ top5' = AverageMeter
    /\ mode' = "eval"
    /\ events' = <<<<"eval", 0>>>>
    /\ bi' = 0
    /\ wrong' = <<0, 0>>
    /\ rpc' = "v_for"
    /\ UNCHANGED <<stmt, epoch, exc, loss, out, errv, best_err1, best_err5,
                   errs, train_loader, val_loader>>
    /\ RunFrame

\* for idx, (images, labels) in enumerate(val_loader): the next batch
ValFor ==
    /\ rpc = "v_for" /\ bi < Len(val_loader)
    /\ bi' = bi + 1
    /\ events' = Append(events, <<"batch", bi + 1>>)
    /\ rpc' = "v_body" /\ stmt' = 1
    /\ UNCHANGED <<epoch, mode, exc, losses, top1, top5, loss, out, errv,
                   best_err1, best_err5, errs, wrong,
                   train_loader, val_loader>>
    /\ RunFrame

\* output = model(images)
ValForward ==
    /\ rpc = "v_body" /\ ValBody[stmt] = "forward"
    /\ \/ /\ out' \in NetOutputs(val_loader[bi])
          /\ Completed(ValBody, "v_for", "forward")
          /\ UNCHANGED <<epoch, bi, mode, losses, top1, top5, loss,
                         errv, best_err1, best_err5, errs, wrong,
                         train_loader, val_loader>>
          /\ RunFrame
       \/ Raise("validate", "ModelError")

\* loss = criterion(output, labels)
ValLoss ==
    /\ rpc = "v_body" /\ ValBody[stmt] = "loss"
    /\ \/ /\ loss' \in RunLosses
          /\ Completed(ValBody, "v_for", "loss")
          /\ UNCHANGED <<epoch, bi, mode, losses, top1, top5, out,
                         errv, best_err1, best_err5, errs, wrong,
                         train_loader, val_loader>>
          /\ RunFrame
       \/ Raise("validate", "CriterionError")

\* err1, err5, = error_rate(output.data, labels, topk=(1, 5))
ValErrorRate ==
    /\ rpc = "v_body" /\ ValBody[stmt] = "error_rate"
    /\ \E o \in error_rate(out, <<Len(val_loader[bi]), RunClasses>>,
                           val_loader[bi], ValidateTopk) :
          IF o.failure = "none"
          THEN /\ errv' = o.res
               /\ out' = o.output
               /\ Completed(ValBody, "v_for", "error_rate")
               /\ UNCHANGED <<epoch, bi, mode, losses, top1, top5, loss,
                              best_err1, best_err5, errs, wrong,
                              train_loader, val_loader>>
               /\ RunFrame
          ELSE Raise("validate", o.failure)

\* losses.update(loss.item(), images.size(0)); top1.update(err1.item(),
\* images.size(0)); top5.update(err5.item(), images.size(0))
ValUpdate ==
    /\ rpc = "v_body" /\ ValBody[stmt] = "update"
    /\ LET n == images_size0(val_loader[bi])
       IN  /\ losses' = update(losses, loss, n).obj
           /\ top1' = update(top1, errv[1], n).obj
           /\ top5' = update(top5, errv[2], n).obj
    /\ wrong' = <<wrong[1] + WrongCount(out, val_loader[bi], 1),
                  wrong[2] + WrongCount(out, val_loader[bi], 5)>>
    /\ Completed(ValBody, "v_for", "update")
    /\ UNCHANGED <<epoch, bi, mode, loss, out, errv, best_err1, best_err5,
                   errs, train_loader, val_loader>>
    /\ RunFrame

\* The loader is exhausted: validate returns top1.avg, top5.avg, losses.avg
\* and its locals are gone; the driver keeps the best: is_best = err1 <=
\* best_err1; best_err1 = min(err1, best_err1); if is_best: best_err5 =
\* err5.  Then the next epoch.
EpochEnd ==
    /\ rpc = "v_for" /\ bi = Len(val_loader)
    /\ LET err1 == top1.avg
           err5 == top5.avg
       IN  /\ best_err1' = min(err1, best_err1)
           /\ best_err5' = IF is_best(err1, best_err1) THEN err5 ELSE best_err5
           /\ errs' = Append(errs, <<err1, err5>>)
    /\ losses' = NoAttr /\ top1' = NoAttr /\ top5' = NoAttr
    /\ loss' = Zero /\ out' = <<>> /\ errv' = <<>>
    /\ bi' = 0 /\ events' = <<>> /\ wrong' = <<0, 0>>
    /\ epoch' = epoch + 1
    /\ rpc' = "epoch"
    /\ UNCHANGED <<stmt, mode, exc, train_loader, val_loader>>
    /\ RunFrame

NextRun ==
    \/ EpochBegin
    \/ TrainFor
    \/ TrainZeroGrad
    \/ TrainForward
    \/ TrainLoss
    \/ TrainBackward
    \/ TrainStep
    \/ TrainUpdate
    \/ TrainReturn
    \/ ValidateEnter
    \/ ValFor
    \/ ValForward
    \/ ValLoss
    \/ ValErrorRate
    \/ ValUpdate
    \/ EpochEnd
    \/ Finish

SpecRun == InitRun /\ [][NextRun]_vars

(************************ claims about AverageMeter ************************)
\* every update since the construction or the last reset had weight >= 1
AllPositive == \A i \in 1..Len(hist) : hist[i][2] >= 1

\* sum of value_i * weight_i over a history, as an unreduced fraction
RECURSIVE WeightedSum(_)
WeightedSum(h) ==
    IF h = <<>> THEN <<0, 1>>
    ELSE LET t == WeightedSum(Tail(h))
             v == h[1][1]
             w == h[1][2]
         IN  <<v[1] * w * t[2] + t[1] * v[2], v[2] * t[2]>>

\* sum of weight_i over a history
RECURSIVE WeightSum(_)
WeightSum(h) == IF h = <<>> THEN 0 ELSE h[1][2] + WeightSum(Tail(h))

\* the fractions a and b denote the same number (denominators non-zero)
SameNumber(a, b) == a[1] * b[2] = b[1] * a[2]

\* C1: after any non-empty sequence of update(value_i, weight_i) calls with
\* every weight_i >= 1 on a freshly constructed or freshly reset meter, sum is
\* the sum of value_i * weight_i, count is the sum of weight_i and avg is
\* their quotient.
C1_WeightedMean ==
    (hist # <<>> /\ AllPositive) =>
        LET S == WeightedSum(hist)
            W == WeightSum(hist)
        IN  /\ raised = "none"
            /\ meter.count = W
            /\ SameNumber(meter.sum, S)
            /\ SameNumber(meter.avg, <<S[1], S[2] * W>>)

\* C1 witness: (2.0, 3) then (4.0, 1) on a reset meter leaves avg = 2.5
C1_Witness ==
    /\ hist = << <<FromInt(2), 3>>, <<FromInt(4), 1>> >>
    /\ prev.count = 3
    /\ meter.sum = FromInt(10)
    /\ meter.count = 4
    /\ meter.avg = <<5, 2>>

\* C3: in the states reached by reset() and update(value, weight >= 1),
\* avg * count = sum when count > 0, and avg = 0 when count = 0.
C3_AvgInvariant ==
    AllPositive =>
        /\ meter.count > 0 =>
              meter.avg[1] * meter.sum[2] * meter.count
                  = meter.sum[1] * meter.avg[2]
        /\ meter.count = 0 => meter.avg[1] = 0

\* C3 witness: a meter that was reset after it had accumulated values
\* (count = 0 then) and holds a non-integral average two updates later
C3_Witness ==
    /\ dirtyReset
    /\ Len(hist) = 2
    /\ AllPositive
    /\ prev.count > 0
    /\ meter.count > prev.count
    /\ meter.avg[2] > 2

\* C4: reset() sets val, sum, count and avg to 0 whatever the prior state,
\* and after it the meter is, after each update, in the state of a newly
\* constructed meter given the same updates.
C4_ResetIsFresh ==
    /\ lastOp.op = "reset" =>
          /\ meter.val = Zero /\ meter.sum = Zero
          /\ meter.avg = Zero /\ meter.count = 0
    /\ meter = fresh

\* C4 witness: the meter was reset from a state with accumulated values and
\* has received two updates since
C4_Witness ==
    /\ dirtyReset
    /\ Len(hist) = 2
    /\ lastOp.op = "update"
    /\ meter.count > 1
    /\ meter.sum # Zero

\* C5 (as claimed): an update with weight <= 0 leaves val, sum, count and
\* avg as they were before the call.
C5_NonPositiveWeightKeepsState ==
    (lastOp.op = "update" /\ lastOp.n <= 0) => meter = prev

(************************* claims about error_rate *************************)
\* the call has returned or raised
Done == pc = "done"

\* N and C of the call
BatchN == size[1]
NumClasses == size[2]

\* every label of the batch lies in [0, C)
LabelsInRange == \A i \in 1..BatchN : target[i] < NumClasses

\* every requested k is at most C
AllKInRange == \A a \in 1..Len(topk) : topk[a] <= NumClasses

\* example i is correct at k: its label occurs among the first k entries of
\* its top-maxk indices (column i of pred)
CorrectAt(i, k) == \E j \in 1..k : pred[j][i] = target[i]

\* the number of examples correct at k
CorrectAtK(k) == Cardinality({i \in 1..BatchN : CorrectAt(i, k)})

\* C2: for N >= 1, labels in [0, C) and every requested k <= C, the call
\* returns for each k the value 100 * (N - correctAtK) / N.
C2_ErrorRateValue ==
    (Done /\ BatchN >= 1 /\ LabelsInRange /\ AllKInRange) =>
        /\ failure = "none"
        /\ Len(res) = Len(topk)
        /\ \A a \in 1..Len(topk) :
              res[a][1] * BatchN
                  = 100 * (BatchN - CorrectAtK(topk[a])) * res[a][2]

\* C2 witness: two examples, labels [0, 1], top-1 predictions [0, 0],
\* error 50.0 for k = 1 and 0.0 for k = 2
C2_Witness ==
    /\ Done
    /\ size = <<2, 3>>
    /\ target = <<0, 1>>
    /\ topk = <<1, 2>>
    /\ pred[1] = <<0, 0>>
    /\ res = <<FromInt(50), Zero>>

\* C6: when the largest requested k exceeds C, the call fails on the
\* library's argument check and returns no error rates.
C6_MaxKTooLarge ==
    (Done /\ max(topk) > NumClasses) =>
        /\ failure = "RuntimeError"
        /\ res = <<>>

\* C6 witness: a non-empty batch over 2 classes asked for k = 1 and k = 3
C6_Witness ==
    /\ Done
    /\ size = <<2, 2>>
    /\ topk = <<1, 3>>
    /\ failure = "RuntimeError"

\* C7 (as claimed): for an empty batch the call fails with an argument
\* error, and not by dividing by zero.
C7_EmptyBatchRejected ==
    (Done /\ BatchN = 0) =>
        /\ failure # "none"
        /\ failure # "ZeroDivisionError"

\* C8: for two requested k1 < k2 <= C of one call, the rate returned for k1
\* is at least the rate returned for k2.
C8_Monotone ==
    (Done /\ failure = "none") =>
        \A a, b \in 1..Len(topk) :
            topk[a] < topk[b] => RatLeq(res[b], res[a])

\* C8 witness: a call whose rate strictly drops from k = 1 to k = 2
C8_Witness ==
    /\ Done
    /\ failure = "none"
    /\ BatchN = 2
    /\ topk = <<2, 1>>
    /\ ~RatLeq(res[2], res[1])

\* the number of examples whose label is not among their first k indices
WrongAtK(k) == Cardinality({i \in 1..BatchN : ~CorrectAt(i, k)})

C10_AllClassesZero ==
    (Done /\ BatchN >= 1 /\ LabelsInRange /\ AllKInRange) =>
        \A a \in 1..Len(topk) :
            topk[a] = NumClasses => (failure = "none" /\ res[a] = Zero)

\* C10 witness: all scores equal over 3 classes, k = 3 requested after
\* k = 1, which misses a label
C10_Witness ==
    /\ Done
    /\ size = <<2, 3>>
    /\ \A i \in 1..2 : \A c \in 0..2 : output[i][c] = 0
    /\ topk = <<1, 3>>
    /\ res[1] # Zero
    /\ res[2] = Zero

\* the true label of every example is its single highest-scored class
LabelIsUniqueTop ==
    \A i \in 1..BatchN :
        /\ target[i] < NumClasses
        /\ \A c \in 0..(NumClasses - 1) :
              c # target[i] => output[i][c] < output[i][target[i]]

\* C11: when every example's true label is its unique highest-scored class,
\* the call returns 0 for k = 1 and, given at least 5 classes, for k = 5.
C11_UniqueTopZero ==
    (Done /\ BatchN >= 1 /\ LabelIsUniqueTop /\ AllKInRange) =>
        /\ failure = "none"
        /\ \A a \in 1..Len(topk) :
              (topk[a] = 1 \/ topk[a] = 5) => res[a] = Zero

\* C11 witness: topk=(1, 5) over five classes, the label scored highest and
\* the other four classes tied
C11_Witness ==
    /\ Done
    /\ size = <<1, 5>>
    /\ topk = ValidateTopk
    /\ LabelIsUniqueTop
    /\ target[1] = 3
    /\ res = <<Zero, Zero>>

(******************* claims about the order of updates *********************)
\* no product and no partial sum of the calls of h is rounded; s is the
\* sum so far
RECURSIVE NoRounding(_, _)
NoRounding(s, h) ==
    IF h = <<>> THEN TRUE
    ELSE LET p == RatMul(h[1][1], FromInt(h[1][2]))
             u == RatAdd(s, p)
         IN  /\ Fl(p) = p
             /\ Fl(u) = u
             /\ NoRounding(u, Tail(h))

\* C12 (as claimed): the same calls in any order leave the same sum, count
\* and avg.
C12_OrderIndependent ==
    opc = "done" =>
        /\ mA.sum = mB.sum
        /\ mA.count = mB.count
        /\ mA.avg = mB.avg

\* C12 (amended): the same calls in any order leave the same count, and the
\* same sum and avg when no product and no partial sum is rounded in either
\* order.
C12_OrderIndependentExact ==
    opc = "done" =>
        /\ mA.count = mB.count
        /\ (NoRounding(Zero, ups) /\ NoRounding(Zero, Permuted(ups, perm))) =>
              /\ mA.sum = mB.sum
              /\ mA.avg = mB.avg

\* C12 witness: three calls applied in reverse order without rounding; the
\* meters agree but for val
C12_Witness ==
    /\ opc = "done"
    /\ Len(ups) = 3
    /\ perm = <<3, 2, 1>>
    /\ NoRounding(Zero, ups)
    /\ NoRounding(Zero, Permuted(ups, perm))
    /\ mA.val # mB.val
    /\ mA.sum = mB.sum
    /\ mA.count > 3
    /\ mA.avg[2] > 1


\* every worker has made all its calls
WorkersDone == queue # <<>> /\ \A w \in Workers : queue[w] = <<>>

\* the workers' sum fields added up, worker 1 first, in float arithmetic
RECURSIVE MergedSum(_)
MergedSum(w) ==
    IF w = 0 THEN Zero ELSE Fl(RatAdd(MergedSum(w - 1), wm[w].sum))

\* the workers' count fields added up
RECURSIVE MergedCount(_)
MergedCount(w) == IF w = 0 THEN 0 ELSE MergedCount(w - 1) + wm[w].count

\* no addition of MergedSum is rounded
RECURSIVE MergeExact(_)
MergeExact(w) ==
    IF w = 0 THEN TRUE
    ELSE /\ MergeExact(w - 1)
         /\ Fl(RatAdd(MergedSum(w - 1), wm[w].sum))
               = RatAdd(MergedSum(w - 1), wm[w].sum)

\* C13 (as claimed): the workers' sums and counts added up are the sum and
\* count of the single meter, and their quotient is its avg.
C13_MergeEqualsSingle ==
    WorkersDone =>
        /\ MergedCount(MaxWorkers) = single.count
        /\ MergedSum(MaxWorkers) = single.sum
        /\ Fl(RatDiv(MergedSum(MaxWorkers), FromInt(MergedCount(MaxWorkers))))
              = single.avg

\* C13 (amended): the counts added up are the single meter's count; the
\* sums added up and their quotient are its sum and avg when no product
\* and no sum is rounded in any worker, in the single meter or in the merge.
C13_MergeEqualsSingleExact ==
    WorkersDone =>
        /\ MergedCount(MaxWorkers) = single.count
        /\ ( /\ \A w \in Workers : NoRounding(Zero, whist[w])
             /\ NoRounding(Zero, shist)
             /\ MergeExact(MaxWorkers) ) =>
              /\ MergedSum(MaxWorkers) = single.sum
              /\ Fl(RatDiv(MergedSum(MaxWorkers),
                           FromInt(MergedCount(MaxWorkers)))) = single.avg

\* C13 witness: two workers have made calls in alternation, nothing was
\* rounded, and the merged sum is the single meter's
C13_Witness ==
    /\ WorkersDone
    /\ Len(whist[1]) = 2
    /\ Len(whist[2]) = 1
    /\ shist[2] = whist[2][1]
    /\ shist[1] # shist[2]
    /\ shist[3] # shist[2]
    /\ \A w \in Workers : NoRounding(Zero, whist[w])
    /\ NoRounding(Zero, shist)
    /\ MergeExact(MaxWorkers)
    /\ MergedSum(MaxWorkers) = single.sum
    /\ single.avg[2] > 1


RECURSIVE Examples(_, _)
Examples(loader, n) ==
    IF n = 0 THEN 0 ELSE Len(loader[n]) + Examples(loader, n - 1)

\* the loader of the call that is running or has last run
CurLoader == IF mode = "train" THEN train_loader ELSE val_loader

\* C15: once the model, the loss function or the optimizer has raised on a
\* batch, the run has ended with that error: the exception is the last event
\* of the batch, no later batch is taken, no meter has an update for the
\* failed batch or changes afterwards, no further epoch begins, and
\* best_err1 and best_err5 keep the values they had.
C15_ErrorEndsRun ==
    [][exc' # "none" =>
          /\ rpc' = "raised"
          /\ exc # "none" => exc' = exc
          /\ events'[Len(events')] = <<exc', bi'>>
          /\ \A j \in 1..Len(events') : events'[j] # <<"update", bi'>>
          /\ bi' = bi /\ epoch' = epoch
          /\ losses' = losses /\ top1' = top1 /\ top5' = top5
          /\ losses'.count = Examples(CurLoader', bi' - 1)
          /\ best_err1' = best_err1 /\ best_err5' = best_err5
          /\ errs' = errs /\ Len(errs') = epoch']_vars

\* the second validation batch of the second epoch fails
C15_Witness ==
    /\ exc # "none" /\ rpc = "raised"
    /\ mode = "eval" /\ bi = 2 /\ epoch = 1


IsBatchEvent(ev) == ev[1] = "batch"

\* how often the current call has done what on batch j
CountEvents(what, j) ==
    Cardinality({i \in 1..Len(events) : events[i] = <<what, j>>})

\* C16: at the head of the batch loop of train or validate, after bi batches
\* (none at the start, all of them at the return): the batches taken so far
\* are batches 1..bi of the loader, each once and in order; each has had one
\* update; the count of losses (in validate also of top1 and top5) is the
\* number of examples of these batches; before the first batch the meters
\* are as newly constructed.
C16_OneUpdatePerBatch ==
    rpc \in {"t_for", "v_for"} =>
        /\ SelectSeq(events, IsBatchEvent) = [j \in 1..bi |-> <<"batch", j>>]
        /\ \A j \in 1..bi : CountEvents("update", j) = 1
        /\ losses.count = Examples(CurLoader, bi)
        /\ bi = 0 => losses = AverageMeter
        /\ rpc = "v_for" =>
              /\ top1.count = losses.count /\ top5.count = losses.count
              /\ bi = 0 => top1 = AverageMeter /\ top5 = AverageMeter

\* validate is about to return after a batch of two and a batch of one
C16_Witness ==
    /\ rpc = "v_for" /\ bi = 2 /\ Len(val_loader) = 2
    /\ Len(val_loader[1]) = 2 /\ Len(val_loader[2]) = 1
    /\ top5.count = 3


\* what train does over n batches without an error, as C17 has it
RECURSIVE ExpectedTrain(_)
ExpectedTrain(n) ==
    IF n = 0 THEN <<<<"train", 0>>>>
    ELSE ExpectedTrain(n - 1) \o
           <<<<"batch", n>>, <<"zero_grad", n>>, <<"forward", n>>,
             <<"loss", n>>, <<"backward", n>>, <<"step", n>>,
             <<"update", n>>>>

IsPrefix(s, t) == Len(s) <= Len(t) /\ \A i \in 1..Len(s) : s[i] = t[i]

\* the events of the current call but for the exception that ended it
Performed ==
    IF exc = "none" THEN events ELSE SubSeq(events, 1, Len(events) - 1)

\* C17: a call of train begins by putting the model in training mode, and
\* what follows is, batch by batch, clear gradients, forward pass, loss,
\* backward, optimizer step, loss-meter update, up to the point the call has
\* reached; a call of validate begins by putting the model in evaluation
\* mode and has no clear-gradients, backward or step among its events.
C17_EventOrder ==
    /\ rpc \in {"t_for", "t_body"} => events # <<>> /\ events[1] = <<"train", 0>>
    /\ rpc \in {"v_for", "v_body"} => events # <<>> /\ events[1] = <<"eval", 0>>
    /\ (events # <<>> /\ events[1] = <<"train", 0>>) =>
          /\ mode = "train"
          /\ IsPrefix(Performed, ExpectedTrain(Len(train_loader)))
    /\ (events # <<>> /\ events[1] = <<"eval", 0>>) =>
          /\ mode = "eval"
          /\ \A i \in 1..Len(events) :
                events[i][1] \notin {"zero_grad", "backward", "step"}

\* train of the second epoch, after a validate, has done two batches
C17_Witness ==
    /\ rpc = "t_for" /\ epoch = 1 /\ bi = 2 /\ Len(train_loader) = 2
    /\ exc = "none" /\ Len(events) = Len(ExpectedTrain(2))


\* validate is about to return, the loader having had batches
ValidateReturns == rpc = "v_for" /\ bi = Len(val_loader) /\ bi > 0

\* C18: at the return of validate over a non-empty loader, top1.avg is 100
\* times the number of examples of the whole set whose label is not the
\* top-scoring class, divided by the number of examples of the set, and
\* top5.avg likewise for labels outside the five top-scoring classes,
\* however the set is split into batches.
C18_SetWideRate ==
    ValidateReturns =>
        LET total == Examples(val_loader, bi)
        IN  /\ top1.avg[1] * total = 100 * wrong[1] * top1.avg[2]
            /\ top5.avg[1] * total = 100 * wrong[2] * top5.avg[2]

\* three examples in a batch of two and a batch of one: two labels are not
\* the top class, one of them not among the top five
C18_Witness ==
    /\ ValidateReturns /\ bi = 2
    /\ Len(val_loader[1]) = 2 /\ Len(val_loader[2]) = 1
    /\ wrong = <<2, 1>>
    /\ top1.avg = <<200, 3>> /\ top5.avg = <<100, 3>>


\* the least of 100 and the top-1 errors of the first n epochs
RECURSIVE MinErr1(_)
MinErr1(n) ==
    IF n = 0 THEN FromInt(100)
    ELSE LET m == MinErr1(n - 1)
         IN  IF RatLeq(errs[n][1], m) THEN errs[n][1] ELSE m

\* the epochs whose top-1 error is that least value
Attained == {ep \in 1..Len(errs) : errs[ep][1] = MinErr1(Len(errs))}

\* the latest of them
LastAttained == CHOOSE ep \in Attained : \A f \in Attained : f <= ep

\* C19 as stated: best_err1 is the least of 100 and the top-1 errors that
\* validate has returned; once an epoch has completed, best_err5 is the
\* top-5 error of the latest epoch whose top-1 error is that least value;
\* and best_err5 is 100 only while no epoch has completed.
C19_BestSoFar ==
    /\ best_err1 = MinErr1(Len(errs))
    /\ errs # <<>> => Attained # {} /\ best_err5 = errs[LastAttained][2]
    /\ best_err5 = FromInt(100) => errs = <<>>

\* C19, amended: as above, but best_err5 is the initial 100 while no epoch
\* has completed, and afterwards a top-5 error that validate returned,
\* which may itself be 100.
C19_BestSoFarReturned ==
    /\ best_err1 = MinErr1(Len(errs))
    /\ errs # <<>> => Attained # {} /\ best_err5 = errs[LastAttained][2]
    /\ errs = <<>> => best_err5 = FromInt(100)

\* two epochs with the same top-1 error and different top-5 errors: the
\* later one gives best_err5
C19_Witness ==
    /\ Len(errs) = 2 /\ rpc = "epoch"
    /\ errs[1][1] = errs[2][1] /\ errs[1][2] # errs[2][2]
    /\ best_err5 = errs[2][2]

====
